---------------------------- MODULE Spec2Model ----------------------------
(***************************************************************************)
(* Record streams of jsforce (record-stream.ts): the map / filter stages,  *)
(* the record conversion done before CSV serialization, the deferred       *)
(* activation of the Parsable stream; and the test helpers next to them.   *)
(*                                                                         *)
(* The specifications of this module share its variables:                  *)
(*   Spec           Parsable / Serializable stream() and on(), the sinks   *)
(*                  written, ended and failing, the Parsable ended         *)
(*   SpecChain      linear chains of map and filter stages                 *)
(*   SpecThrow      chains with stages whose fn throws                     *)
(*   SpecSerialize  convertRecordForSerialization as used by the CSV       *)
(*                  converter's serialize stage                            *)
(*   SpecMapping    evalMapping and the recordMapStream stage              *)
(*   SpecFrame      both stages, with the object written into them         *)
(*   SpecPipeline   createPipelineStream as Serializable.stream uses it    *)
(*   SpecCache      the cached functions of the cache test                 *)
(*   SpecConn       ConnectionManager (connection-manager.ts) with a pool  *)
(***************************************************************************)
EXTENDS Naturals, Sequences, FiniteSets

VARIABLES
    \* ---- Spec: one Parsable stream and one Serializable stream
    _execParse,    \* Parsable._execParse
    _incomings,    \* Parsable._incomings: the [dataStream, parserStream] pairs
    dataStreams,   \* the PassThrough returned by each Parsable.stream() call
    parserStreams, \* the parse stage created by each Parsable.stream() call
    listeners,     \* per event, how many listeners super.on has registered
    connectLog,    \* the dataStream.pipe(parserStream) calls made, in order
    emitted,       \* the records that came out of the Parsable stream, in order
    errors,        \* the parse errors emitted as 'error' on the Parsable stream
    rejected,      \* the records written into the Parsable stream after its end
    parsable,      \* the Parsable stream itself: open, ended or destroyed
    serPipes,      \* the destinations the Serializable stream is piped into
    outcome,       \* what the latest step did: returned or threw
    \* ---- SpecChain: a RecordStream with map / filter stages piped behind it
    stages,        \* the stages of the chain, in pipe order: [kind, fn]
    buffers,       \* buffers[1]: records the RecordStream holds for stage 1;
                   \* buffers[j + 1]: records stage j has pushed and nobody has read
    input,         \* the records written into the RecordStream so far
    seen,          \* per stage, the records its transform has dealt with
    pushed,        \* per stage, the records its transform pushed
    stageState,    \* per stage, "running", or how a throw of fn ended it
    \* ---- SpecSerialize: one record through the serialize map stage
    record,        \* the record written into the stage
    options,       \* the RecordStreamSerializeOption object
    converted,     \* what the stage pushed downstream (Undefined: nothing yet)
    recordAfter,   \* what the object written into the stage contains afterwards
    convPc,        \* "init" | "done"
    \* ---- SpecMapping: evalMapping and the recordMapStream stage
    tplValue,      \* the value argument of evalMapping
    tplRecord,     \* the record argument of recordMapStream: the template
    tplNoeval,     \* the noeval argument of recordMapStream
    srcRecord,     \* the source record: written into the stage, mapping of evalMapping
    srcAfter,      \* what the source record object contains afterwards
    evaluated,     \* what evalMapping returned
    mappedOut,     \* what the stage pushed downstream
    mapPc,         \* "init" | "evaluated" | "mapped"
    \* ---- SpecPipeline: a Serializable piped into the composite of two stages
    plCreated,     \* Serializable.stream() has made the composite and piped into it
    plPipes,       \* per stream, the destinations it is piped into, in pipe order
    plAttached,    \* the destinations handed to the composite's pipe(), in order
    plQueues,      \* per stream, the records it holds for its destinations
    plProduced,    \* the records written into the Serializable so far
    plReceived,    \* per destination, what has been written into it
    \* ---- SpecCache: the functions the cache test wraps around getTime
    cacheEntries,  \* per cache key, the stored result (NoEntry: none)
    clock,         \* how often getTime has been invoked: the time it resolved last
    cacheCalls,    \* the calls made so far, in order: [strategy, value]
    \* ---- SpecConn: a ConnectionManager with a user pool, and its connections
    available,     \* the usernames the pool has to hand out
    conns          \* per connection: where establishConnection / closeConnection
                   \* stands, conn.__username, the username it checked out, and
                   \* whether that username was checked in again

convVars == <<record, options, converted, recordAfter, convPc>>

mappingVars ==
    <<tplValue, tplRecord, tplNoeval, srcRecord, srcAfter, evaluated, mappedOut, mapPc>>

parsableVars ==
    <<_execParse, _incomings, dataStreams, parserStreams, listeners, connectLog, emitted,
      errors, rejected, parsable>>

streamVars == <<parsableVars, serPipes, outcome>>

chainVars == <<stages, buffers, input, seen, pushed, stageState>>

pipelineVars == <<plCreated, plPipes, plAttached, plQueues, plProduced, plReceived>>

cacheVars == <<cacheEntries, clock, cacheCalls>>

connVars == <<available, conns>>

vars == <<streamVars, chainVars, convVars, mappingVars, pipelineVars, cacheVars, connVars>>

\* what the steps of one specification leave alone
notStreamVars == <<chainVars, convVars, mappingVars, pipelineVars, cacheVars, connVars>>

notChainVars == <<streamVars, convVars, mappingVars, pipelineVars, cacheVars, connVars>>

notConvVars == <<streamVars, chainVars, mappingVars, pipelineVars, cacheVars, connVars>>

notMappingVars == <<streamVars, chainVars, convVars, pipelineVars, cacheVars, connVars>>

notCacheVars == <<streamVars, chainVars, convVars, mappingVars, pipelineVars, connVars>>

notConnVars ==
    <<streamVars, chainVars, convVars, mappingVars, pipelineVars, cacheVars>>

notPipelineVars == <<streamVars, chainVars, convVars, mappingVars, cacheVars, connVars>>

(***************************************************************************)
(* JavaScript values.  Every value has the same shape so that any two can  *)
(* be compared: t is the type tag, n the payload of a number or boolean,   *)
(* s the payload of a string, sub the own properties of an object in       *)
(* insertion order (the order Object.keys reports).                        *)
(***************************************************************************)
Undefined == [t |-> "undefined", n |-> 0, s |-> "", sub |-> <<>>]

Null == [t |-> "null", n |-> 0, s |-> "", sub |-> <<>>]

Num(i) == [t |-> "number", n |-> i, s |-> "", sub |-> <<>>]

Str(x) == [t |-> "string", n |-> 0, s |-> x, sub |-> <<>>]

Bool(b) == [t |-> "boolean", n |-> IF b THEN 1 ELSE 0, s |-> "", sub |-> <<>>]

Obj(entries) == [t |-> "object", n |-> 0, s |-> "", sub |-> entries]

Prop(key, value) == [k |-> key, v |-> value]

\* typeof v: null reports "object"
TypeOf(v) == IF v.t = "null" THEN "object" ELSE v.t

\* ToBoolean(v), as used by !, && and ||
Truthy(v) ==
    ~ \/ v.t \in {"undefined", "null"}
      \/ v.t = "number" /\ v.n = 0
      \/ v.t = "string" /\ v.s = ""
      \/ v.t = "boolean" /\ v.n = 0

\* Object.keys(o)
Keys(o) == [i \in 1..Len(o.sub) |-> o.sub[i].k]

KeySet(o) == {o.sub[i].k : i \in 1..Len(o.sub)}

HasKey(o, key) == key \in KeySet(o)

\* o[key] for an own property; a missing property reads undefined
Get(o, key) ==
    IF HasKey(o, key)
    THEN o.sub[CHOOSE i \in 1..Len(o.sub) : o.sub[i].k = key].v
    ELSE Undefined

\* o[key] = value: an existing property keeps its place, a new one is appended
SetProp(o, key, value) ==
    IF HasKey(o, key)
    THEN [o EXCEPT !.sub = [i \in 1..Len(o.sub) |->
                               IF o.sub[i].k = key THEN Prop(key, value) ELSE o.sub[i]]]
    ELSE [o EXCEPT !.sub = Append(o.sub, Prop(key, value))]

\* delete o[key]
DeleteProp(o, key) ==
    LET Keep(e) == e.k # key
    IN [o EXCEPT !.sub = SelectSeq(o.sub, Keep)]

\* the 'attributes' metadata object of a queried record
Attributes == Obj(<<Prop("type", Str("Account"))>>)

\* a property that is either missing or holds one of the values
FieldChoices(key, values) == {<<>>} \cup {<<Prop(key, v)>> : v \in values}

(***************************************************************************)
(* Object identity.  A reference tells which object a variable of the code *)
(* holds: obj is what the object contains, isInput tells whether it is the *)
(* very object the caller passed in, and input is what the caller's object *)
(* contains at this point.  A write through a reference that is the        *)
(* caller's object is a write to the caller's object.                      *)
(***************************************************************************)
\* the parameter itself: reduce(..., record) starts from the caller's object
sameObject(rec) == [obj |-> rec, isInput |-> TRUE, input |-> rec]

\* an object literal: a new object, the caller's object being what it was
newObject(o, callerObject) == [obj |-> o, isInput |-> FALSE, input |-> callerObject]

\* a copy that is no copy: the very object again
spread_sameObject(ref) == ref

\* { ...rec }: a new object with the own properties of rec
spread(ref) == newObject(ref.obj, ref.input)

\* the object a reference holds, given new contents
written(ref, o) ==
    [obj |-> o, isInput |-> ref.isInput, input |-> IF ref.isInput THEN o ELSE ref.input]

\* rec[key] = value
assign(ref, key, value) == written(ref, SetProp(ref.obj, key, value))

\* delete rec[key]
deleteKey(ref, key) == written(ref, DeleteProp(ref.obj, key))

\* the object held under key is shared by the accumulator and the caller's
\* object: what a callee did to it shows in both
shareNested(ref, key, after) ==
    [obj |-> SetProp(ref.obj, key, after),
     isInput |-> ref.isInput,
     input |-> IF HasKey(ref.input, key) /\ Get(ref.input, key) = Get(ref.obj, key)
               THEN SetProp(ref.input, key, after)
               ELSE ref.input]

(***************************************************************************)
(* convertRecordForSerialization                                           *)
(***************************************************************************)
\* the inner reduce: prec[`${key}.${pkey}`] = precord[pkey] for every pkey
RECURSIVE flattenInto(_, _, _, _)
flattenInto(prec, key, precord, i) ==
    IF i > Len(precord.sub)
    THEN prec
    ELSE flattenInto(assign(prec, key \o "." \o precord.sub[i].k, precord.sub[i].v),
                     key, precord, i + 1)

RECURSIVE convertCall(_, _)

\* the reducer callback: one key of the record applied to the accumulator rec
convertKey(rec, key, opts) ==
    LET value == Get(rec.obj, key)
    IN IF key = "attributes"
       THEN deleteKey(spread(rec), key)
       ELSE IF Truthy(Get(opts, "nullValue")) /\ value = Null
       THEN assign(spread(rec), key, Get(opts, "nullValue"))
       ELSE IF value # Null /\ TypeOf(value) = "object"
       THEN LET precord == convertCall(value, opts)
            IN flattenInto(spread(shareNested(rec, key, precord.input)), key, precord.obj, 1)
       ELSE rec

\* Object.keys(record).reduce(..., record), from key number i on
RECURSIVE reduceKeys(_, _, _, _)
reduceKeys(rec, keys, i, opts) ==
    IF i > Len(keys)
    THEN rec
    ELSE reduceKeys(convertKey(rec, keys[i], opts), keys, i + 1, opts)

\* one call: the reference it returns, and with it the caller's object
convertCall(rec, opts) == reduceKeys(sameObject(rec), Keys(rec), 1, opts)

convertRecordForSerialization(rec, opts) == convertCall(rec, opts).obj

(***************************************************************************)
(* RecordStream.map and RecordStream.filter                                *)
(***************************************************************************)
\* a map stage that pushes only what fn returned, when it returned something
mapPush_dropsFalsy(fnResult, rec) == IF Truthy(fnResult) THEN <<fnResult>> ELSE <<>>

\* what the transform of a map stage pushes for a record, given what fn
\* returned for it: const rec = fn(record) || record; mapStream.push(rec)
mapPush(fnResult, rec) == <<IF Truthy(fnResult) THEN fnResult ELSE rec>>

\* a filter stage with its test negated
filterPush_negated(fnResult, rec) == IF Truthy(fnResult) THEN <<>> ELSE <<rec>>

\* what the transform of a filter stage pushes for a record, given what fn
\* returned for it: if (fn(record)) filterStream.push(record)
filterPush(fnResult, rec) == IF Truthy(fnResult) THEN <<rec>> ELSE <<>>

\* a push that puts the record in front of the ones waiting
push_inFront(buffer, items) == items \o buffer

\* stream.push(rec): the record joins the stage's readable buffer at its end
push(buffer, items) == buffer \o items

(***************************************************************************)
(* Chains of stages                                                        *)
(***************************************************************************)
\* number of stages piped behind the RecordStream
MaxStages == 2

\* number of records written into the RecordStream
MaxRecords == 3

\* the records written carry the Ids 1..MaxId
MaxId == 2

ChainRecords == {Obj(<<Prop("Id", Num(i))>>) : i \in 1..MaxId}

MapFns == {"noReturn", "nullOrTagged"}

FilterFns == {"isFirst", "idMinusOne", "tag"}

\* how a call of fn ends when fn throws instead of returning
Throws == [t |-> "throw", n |-> 0, s |-> "Error", sub |-> <<>>]

\* the user-supplied functions the stages are built with
applyFn(fn, rec) ==
    CASE fn = "noReturn" -> Undefined
      [] fn = "nullOrTagged" ->
            IF Get(rec, "Id") = Num(1) THEN Null ELSE SetProp(rec, "Tag", Str("t"))
      [] fn = "isFirst" -> Bool(Get(rec, "Id") = Num(1))
      [] fn = "idMinusOne" -> Num(Get(rec, "Id").n - 1)
      [] fn = "tag" -> Get(rec, "Tag")
      [] fn = "failsOnSecond" -> IF Get(rec, "Id") = Num(2) THEN Throws ELSE Undefined
      [] fn = "passesOrFails" -> IF Get(rec, "Id") = Num(2) THEN Throws ELSE Bool(TRUE)

StageKinds ==
    {[kind |-> "map", fn |-> f] : f \in MapFns} \cup
    {[kind |-> "filter", fn |-> f] : f \in FilterFns}

\* the transform callback of a stage, applied to one record
transform(stage, rec) ==
    IF stage.kind = "map"
    THEN mapPush(applyFn(stage.fn, rec), rec)
    ELSE filterPush(applyFn(stage.fn, rec), rec)

\* a record in a buffer, with the place in the input of the record it was made from
Item(rec, src) == [rec |-> rec, src |-> src]

Tagged(recs, src) == [i \in 1..Len(recs) |-> Item(recs[i], src)]

InitChain ==
    /\ stages = <<>>
    /\ buffers = <<(<<>>)>>
    /\ input = <<>>
    /\ seen = <<>>
    /\ pushed = <<>>
    /\ stageState = <<>>

\* map(fn) / filter(fn) on the RecordStream, pipe(RecordStream.map(fn)) /
\* pipe(RecordStream.filter(fn)) on the last stage: one more stage downstream
AttachStage(stage) ==
    /\ Len(stages) < MaxStages
    /\ stages' = Append(stages, stage)
    /\ buffers' = Append(buffers, <<>>)
    /\ seen' = Append(seen, <<>>)
    /\ pushed' = Append(pushed, <<>>)
    /\ stageState' = Append(stageState, "running")
    /\ UNCHANGED input

\* a producer writes a record into the RecordStream, which passes it through
WriteRecord(rec) ==
    /\ Len(input) < MaxRecords
    /\ input' = Append(input, rec)
    /\ buffers' = [buffers EXCEPT ![1] = push(@, <<Item(rec, Len(input) + 1)>>)]
    /\ UNCHANGED <<stages, seen, pushed, stageState>>

\* A throw inside transform() is outside what a Transform stream defines:
\* the exception leaves transform() for whoever wrote the record ("thrown"),
\* or the runtime turns it into an 'error' of the stage's stream ("errored")
ThrowOutcomes == {"thrown", "errored"}

\* stage j takes the oldest record piped to it and runs its transform on it;
\* when fn throws, neither push nor callback() is reached: nothing is pushed
\* and the stage takes no further record
TransformStep(j) ==
    /\ buffers[j] # <<>>
    /\ stageState[j] = "running"
    /\ LET item == Head(buffers[j])
           out == Tagged(transform(stages[j], item.rec), item.src)
       IN IF applyFn(stages[j].fn, item.rec) = Throws
          THEN /\ \E how \in ThrowOutcomes : stageState' = [stageState EXCEPT ![j] = how]
               /\ buffers' = [buffers EXCEPT ![j] = Tail(@)]
               /\ UNCHANGED <<seen, pushed>>
          ELSE /\ buffers' = [buffers EXCEPT ![j] = Tail(@), ![j + 1] = push(@, out)]
               /\ seen' = [seen EXCEPT ![j] = Append(@, item)]
               /\ pushed' = [pushed EXCEPT ![j] = @ \o out]
               /\ UNCHANGED stageState
    /\ UNCHANGED <<stages, input>>

NextChain ==
    \/ \E stage \in StageKinds : AttachStage(stage) /\ UNCHANGED notChainVars
    \/ \E rec \in ChainRecords : WriteRecord(rec) /\ UNCHANGED notChainVars
    \/ \E j \in 1..Len(stages) : TransformStep(j) /\ UNCHANGED notChainVars

\* stages whose fn throws for the record with Id 2, and one whose fn never does
ThrowingKinds ==
    {[kind |-> "map", fn |-> "failsOnSecond"], [kind |-> "filter", fn |-> "passesOrFails"],
     [kind |-> "map", fn |-> "noReturn"]}

NextThrow ==
    \/ \E stage \in ThrowingKinds : AttachStage(stage) /\ UNCHANGED notChainVars
    \/ \E rec \in ChainRecords : WriteRecord(rec) /\ UNCHANGED notChainVars
    \/ \E j \in 1..Len(stages) : TransformStep(j) /\ UNCHANGED notChainVars

(***************************************************************************)
(* The converter registry                                                  *)
(***************************************************************************)
Fn(name) == [t |-> "function", n |-> 0, s |-> name, sub |-> <<>>]

CSVStreamConverter == Obj(<<Prop("serialize", Fn("serialize")), Prop("parse", Fn("parse"))>>)

\* const DataStreamConverters = { csv: CSVStreamConverter }
DataStreamConverters == Obj(<<Prop("csv", CSVStreamConverter)>>)

\* what an object literal inherits: the members of Object.prototype
ObjectPrototype ==
    Obj(<<Prop("constructor", Fn("Object")), Prop("toString", Fn("toString")),
          Prop("valueOf", Fn("valueOf")), Prop("hasOwnProperty", Fn("hasOwnProperty"))>>)

\* o[key] through the prototype chain: an own property, else an inherited one
GetProperty(o, key) == IF HasKey(o, key) THEN Get(o, key) ELSE Get(ObjectPrototype, key)

\* type: string = 'csv': a missing argument takes the default
formatOf(arg) == IF arg = Undefined THEN "csv" ELSE arg.s

NoError == [name |-> "", message |-> <<>>]

\* new Error(`Converting [${type}] data stream is not supported.`)
UnsupportedError(type) ==
    [name |-> "Error", message |-> <<"Converting [", type, "] data stream is not supported.">>]

\* calling a member that is not a function
NotAFunction(member) == [name |-> "TypeError", message |-> <<member, " is not a function">>]

Returned(op, type, id) == [op |-> op, type |-> type, thrown |-> NoError, returned |-> id]

Threw(op, type, err) == [op |-> op, type |-> type, thrown |-> err, returned |-> 0]

(***************************************************************************)
(* Parsable and Serializable                                               *)
(***************************************************************************)
\* number of calls that grow the state, all together: stream() calls that
\* return a stream, on() / addListener() calls, chunks written into the
\* sinks, sinks ended
MaxCalls == 5

\* the arguments stream() is called with: none, a registered name, others
FormatArgs == {Undefined, Str("csv"), Str("xml"), Str("toString")}

Events == {"readable", "record", "data", "error"}

\* the external CSV parser: the row number k stands for the k-th CSV line
\* written into a sink, parsed into the record {Id: k}
parseCSVStream(chunk) == Obj(<<Prop("Id", Num(chunk))>>)

\* the test of _execParse inverted
connectsNow_inverted(exec) == ~exec

\* a new sink is queued whatever _execParse says
connectsNow_never(exec) == FALSE

\* if (this._execParse): a new sink is connected at once, else queued
connectsNow(exec) == exec

\* the inner test of _execParse left out
activates_unguarded(ev, exec) == ev = "readable" \/ ev = "record"

\* if (ev === 'readable' || ev === 'record') if (!this._execParse)
activates(ev, exec) == (ev = "readable" \/ ev = "record") /\ ~exec

\* the queue walked from its newest pair to its oldest
incomingsInOrder_reversed(incomings) ==
    [i \in 1..Len(incomings) |-> incomings[Len(incomings) + 1 - i]]

\* for (const [dataStream, parserStream] of this._incomings): the pairs visited
incomingsInOrder(incomings) == incomings

\* dataStream.pipe(parserStream)
pipe(streams, pair) ==
    [streams EXCEPT ![pair.dataStream].pipes = Append(@, pair.parserStream)]

RECURSIVE pipeEach(_, _, _)
pipeEach(streams, pairs, i) ==
    IF i > Len(pairs)
    THEN streams
    ELSE pipeEach(pipe(streams, pairs[i]), pairs, i + 1)

\* a stream nobody has ended or destroyed
Open == [state |-> "open", by |-> 0]

InitStreams ==
    /\ _execParse = FALSE
    /\ _incomings = <<>>
    /\ dataStreams = <<>>
    /\ parserStreams = <<>>
    /\ listeners = [ev \in Events |-> 0]
    /\ connectLog = <<>>
    /\ emitted = <<>>
    /\ errors = <<>>
    /\ rejected = <<>>
    /\ parsable = Open
    /\ serPipes = <<>>
    /\ outcome = Returned("new", "", 0)

ListenerCount ==
    listeners["readable"] + listeners["record"] + listeners["data"] + listeners["error"]

TotalWritten == LET RECURSIVE Sum(_)
                    Sum(i) == IF i = 0 THEN 0 ELSE dataStreams[i].written + Sum(i - 1)
                IN Sum(Len(dataStreams))

TotalEnded == Cardinality({i \in 1..Len(dataStreams) : dataStreams[i].ended})

\* the calls made so far that count against MaxCalls
Calls == Len(dataStreams) + Len(serPipes) + ListenerCount + TotalWritten + TotalEnded

\* Parsable.stream(type, options)
ParsableStream(arg) ==
    LET type == formatOf(arg)
        converter == GetProperty(DataStreamConverters, type)
        id == Len(dataStreams) + 1
        pair == [dataStream |-> id, parserStream |-> id]
        created == Append(dataStreams, [buffer |-> <<>>, written |-> 0, pipes |-> <<>>,
                                        ended |-> FALSE])
    IN IF ~Truthy(converter)
       THEN /\ outcome' = Threw("Parsable.stream", type, UnsupportedError(type))
            /\ UNCHANGED <<parsableVars, serPipes>>
       ELSE IF GetProperty(converter, "parse").t # "function"
       THEN /\ outcome' = Threw("Parsable.stream", type, NotAFunction("converter.parse"))
            /\ UNCHANGED <<parsableVars, serPipes>>
       ELSE /\ Calls < MaxCalls
            /\ parserStreams' = Append(parserStreams,
                                       [onError |-> "this.emit", pipes |-> <<"this">>,
                                        state |-> "open"])
            /\ IF connectsNow(_execParse)
               THEN /\ dataStreams' = pipe(created, pair)
                    /\ connectLog' = Append(connectLog, pair)
                    /\ UNCHANGED _incomings
               ELSE /\ dataStreams' = created
                    /\ _incomings' = Append(_incomings, pair)
                    /\ UNCHANGED connectLog
            /\ outcome' = Returned("Parsable.stream", type, id)
            /\ UNCHANGED <<_execParse, listeners, emitted, errors, rejected, parsable,
                           serPipes>>

\* Parsable.on(ev, fn), which addListener is too
ParsableOn(ev) ==
    /\ Calls < MaxCalls
    /\ IF activates(ev, _execParse)
       THEN /\ _execParse' = TRUE
            /\ dataStreams' = pipeEach(dataStreams, incomingsInOrder(_incomings), 1)
            /\ connectLog' = connectLog \o incomingsInOrder(_incomings)
       ELSE UNCHANGED <<_execParse, dataStreams, connectLog>>
    /\ listeners' = [listeners EXCEPT ![ev] = @ + 1]
    /\ outcome' = Returned("Parsable.on", "", 0)
    /\ UNCHANGED <<_incomings, parserStreams, emitted, errors, rejected, parsable, serPipes>>

\* a producer writes the next CSV line into the sink dataStreams[i]
WriteSink(i) ==
    /\ Calls < MaxCalls
    /\ ~dataStreams[i].ended
    /\ dataStreams' = [dataStreams EXCEPT ![i].written = @ + 1,
                                          ![i].buffer = Append(@, dataStreams[i].written + 1)]
    /\ outcome' = Returned("write", "", 0)
    /\ UNCHANGED <<_execParse, _incomings, parserStreams, listeners, connectLog, emitted,
                   errors, rejected, parsable, serPipes>>

\* the records the parse stages make of one chunk, one per pipe of the sink
RECURSIVE parsedBy(_, _, _)
parsedBy(dests, chunk, i) ==
    IF i > Len(dests)
    THEN <<>>
    ELSE <<[sink |-> dests[i], rec |-> parseCSVStream(chunk)]>> \o parsedBy(dests, chunk, i + 1)

\* a write into the Parsable stream is taken only while the stream is open
accepts(stream) == stream.state = "open"

\* a connected sink hands its oldest chunk to its parse stage, whose record
\* is written into the Parsable stream (parserStream.pipe(this)) and passes
\* through it, unless the Parsable stream has been ended or destroyed
FlowSink(i) ==
    /\ dataStreams[i].buffer # <<>>
    /\ dataStreams[i].pipes # <<>>
    /\ parserStreams[i].state = "open"
    /\ dataStreams' = [dataStreams EXCEPT ![i].buffer = Tail(@)]
    /\ LET records == parsedBy(dataStreams[i].pipes, Head(dataStreams[i].buffer), 1)
       IN IF accepts(parsable)
          THEN emitted' = emitted \o records /\ UNCHANGED rejected
          ELSE rejected' = rejected \o records /\ UNCHANGED emitted
    /\ outcome' = Returned("flow", "", 0)
    /\ UNCHANGED <<_execParse, _incomings, parserStreams, listeners, connectLog, errors,
                   parsable, serPipes>>

\* the listener that swallows the error
emitError_swallowed(errs, handler, err) == errs

\* parserStream.on('error', err => this.emit('error', err)): what the
\* Parsable stream has emitted once the parse stage has raised err
emitError(errs, handler, err) == IF handler = "this.emit" THEN Append(errs, err) ELSE errs

\* the parse stage of a connected sink fails on the sink's oldest chunk and
\* raises an error; an errored stage parses no more
FailSink(i) ==
    /\ dataStreams[i].buffer # <<>>
    /\ dataStreams[i].pipes # <<>>
    /\ parserStreams[i].state = "open"
    /\ dataStreams' = [dataStreams EXCEPT ![i].buffer = Tail(@)]
    /\ parserStreams' = [parserStreams EXCEPT ![i].state = "errored"]
    /\ errors' = emitError(errors, parserStreams[i].onError,
                           [sink |-> i, chunk |-> Head(dataStreams[i].buffer)])
    /\ outcome' = Returned("parse error", "", 0)
    /\ UNCHANGED <<_execParse, _incomings, listeners, connectLog, emitted, rejected,
                   parsable, serPipes>>

\* the producer ends the sink dataStreams[i]
EndSink(i) ==
    /\ Calls < MaxCalls
    /\ ~dataStreams[i].ended
    /\ dataStreams' = [dataStreams EXCEPT ![i].ended = TRUE]
    /\ outcome' = Returned("end", "", 0)
    /\ UNCHANGED <<_execParse, _incomings, parserStreams, listeners, connectLog, emitted,
                   errors, rejected, parsable, serPipes>>

\* stream.end() on a stream that something is piped into
endOf(stream, by) == IF stream.state = "open" THEN [state |-> "ended", by |-> by] ELSE stream

\* an ended sink that is connected and has handed over all its chunks ends
\* its parse stage (dataStream.pipe(parserStream)), and the parse stage, done,
\* ends the Parsable stream: both pipes are made without { end: false }
FinishSink(i) ==
    /\ dataStreams[i].ended
    /\ dataStreams[i].buffer = <<>>
    /\ dataStreams[i].pipes # <<>>
    /\ parserStreams[i].state = "open"
    /\ parserStreams' = [parserStreams EXCEPT ![i].state = "ended"]
    /\ parsable' = IF parserStreams[i].pipes # <<>> THEN endOf(parsable, i) ELSE parsable
    /\ outcome' = Returned("finish", "", 0)
    /\ UNCHANGED <<_execParse, _incomings, dataStreams, listeners, connectLog, emitted,
                   errors, rejected, serPipes>>

\* end() or destroy() called on the Parsable stream: Parsable overrides
\* neither, so its own fields stay as they are
TerminateParsable(how) ==
    /\ parsable.state = "open"
    /\ parsable' = [state |-> how, by |-> 0]
    /\ outcome' = Returned(how, "", 0)
    /\ UNCHANGED <<_execParse, _incomings, dataStreams, parserStreams, listeners,
                   connectLog, emitted, errors, rejected, serPipes>>

\* Serializable.stream(type, options)
SerializableStream(arg) ==
    LET type == formatOf(arg)
        converter == GetProperty(DataStreamConverters, type)
    IN IF ~Truthy(converter)
       THEN /\ outcome' = Threw("Serializable.stream", type, UnsupportedError(type))
            /\ UNCHANGED <<parsableVars, serPipes>>
       ELSE IF GetProperty(converter, "serialize").t # "function"
       THEN /\ outcome' = Threw("Serializable.stream", type,
                                NotAFunction("converter.serialize"))
            /\ UNCHANGED <<parsableVars, serPipes>>
       ELSE /\ Calls < MaxCalls
            /\ serPipes' = Append(serPipes, [s1 |-> "map", s2 |-> "serializeCSVStream"])
            /\ outcome' = Returned("Serializable.stream", type, Len(serPipes) + 1)
            /\ UNCHANGED parsableVars

\* the variables of SpecSerialize, at rest in the other specifications
InitConv ==
    /\ record = Obj(<<>>)
    /\ options = Obj(<<>>)
    /\ converted = Undefined
    /\ recordAfter = record
    /\ convPc = "init"

(***************************************************************************)
(* evalMapping and recordMapStream                                         *)
(***************************************************************************)
\* number of segments of a template string: placeholders and the text
\* between them
MaxSegments == 2

\* a piece of text without a placeholder
Lit(text) == [ph |-> FALSE, text |-> text]

\* the placeholder ${name}
Ph(name) == [ph |-> TRUE, text |-> name]

RECURSIVE Render(_)
\* the string made of the segments
Render(segs) ==
    IF segs = <<>>
    THEN ""
    ELSE (IF Head(segs).ph THEN "${" \o Head(segs).text \o "}" ELSE Head(segs).text)
         \o Render(Tail(segs))

\* the names the placeholders of the templates use: record fields, and a
\* name records inherit
PlaceholderNames == {"Name", "Count", "toString"}

Segments == {Lit("Hello ")} \cup {Ph(name) : name \in PlaceholderNames}

\* the template strings as their segments; text is never split in two
TemplateSegments ==
    {segs \in UNION {[1..n -> Segments] : n \in 1..MaxSegments} :
        \A i \in 1..(Len(segs) - 1) : segs[i].ph \/ segs[i + 1].ph}

\* /\$\{(\w+)\}/g on a string: its matches and the text between them
Scan(str) ==
    IF \E segs \in TemplateSegments : Render(segs) = str
    THEN CHOOSE segs \in TemplateSegments : Render(segs) = str
    ELSE <<Lit(str)>>

\* /^\$\{(\w+)\}$/.exec(value): the string is one placeholder and nothing else
execWhole(str) == Len(Scan(str)) = 1 /\ Scan(str)[1].ph

Digits == <<"0", "1", "2", "3", "4", "5", "6", "7", "8", "9">>

RECURSIVE NumberToString(_)
NumberToString(i) ==
    IF i < 10 THEN Digits[i + 1] ELSE NumberToString(i \div 10) \o Digits[(i % 10) + 1]

\* String(v)
ToString(v) ==
    CASE v.t = "string" -> v.s
      [] v.t = "number" -> NumberToString(v.n)
      [] v.t = "boolean" -> IF v.n = 1 THEN "true" ELSE "false"
      [] v.t = "function" -> "function " \o v.s \o "() { [native code] }"
      [] v.t = "object" -> "[object Object]"
      [] v.t = "null" -> "null"
      [] v.t = "undefined" -> "undefined"

\* the replacer callback: ($0, prop) => ...
replacer(prop, mapping) ==
    LET v == GetProperty(mapping, prop)
    IN IF TypeOf(v) = "undefined" \/ v = Null THEN "" ELSE ToString(v)

RECURSIVE replace(_, _)
\* value.replace(/\$\{(\w+)\}/g, replacer)
replace(segs, mapping) ==
    IF segs = <<>>
    THEN ""
    ELSE (IF Head(segs).ph THEN replacer(Head(segs).text, mapping) ELSE Head(segs).text)
         \o replace(Tail(segs), mapping)

evalMapping(value, mapping) ==
    IF TypeOf(value) = "string"
    THEN IF execWhole(value.s)
         THEN GetProperty(mapping, Scan(value.s)[1].text)
         ELSE Str(replace(Scan(value.s), mapping))
    ELSE value

\* const mapped = rec: the source record itself
newMapped_sameObject(rec) == sameObject(rec)

\* const mapped = { Id: rec.Id }
newMapped(rec) == newObject(Obj(<<Prop("Id", GetProperty(rec, "Id"))>>), rec)

RECURSIVE mapProps(_, _, _, _, _)
\* for (const prop of Object.keys(record)) mapped[prop] = ...; rec is read
\* as the source record object is at that point
mapProps(mapped, tpl, noeval, keys, i) ==
    IF i > Len(keys)
    THEN mapped
    ELSE mapProps(assign(mapped, keys[i],
                         IF noeval
                         THEN Get(tpl, keys[i])
                         ELSE evalMapping(Get(tpl, keys[i]), mapped.input)),
                  tpl, noeval, keys, i + 1)

\* the function recordMapStream(record, noeval) hands to RecordStream.map
recordMapStream(tpl, noeval, rec) == mapProps(newMapped(rec), tpl, noeval, Keys(tpl), 1)

\* the values of template fields: template strings and values of other types
TemplateValues ==
    {Str(Render(segs)) : segs \in TemplateSegments} \cup
    {Num(5), Null, Undefined, Bool(TRUE), Obj(<<Prop("x", Num(1))>>)}

\* the templates: a field Label, and with or without a field Id of their own
TemplatesWith(value) ==
    {Obj(<<Prop("Label", value)>> \o id) :
        id \in FieldChoices("Id", {Str(Render(<<Ph("Name")>>)), Str("x")})}

SourceRecords ==
    {Obj(id \o name \o count) : id \in FieldChoices("Id", {Str("001")}),
                                name \in FieldChoices("Name", {Null, Str("Acme")}),
                                count \in FieldChoices("Count", {Num(0), Num(7)})}

\* the variables of SpecMapping, at rest in the other specifications
InitMapping ==
    /\ tplValue = Undefined
    /\ tplRecord = Obj(<<>>)
    /\ tplNoeval = FALSE
    /\ srcRecord = Obj(<<>>)
    /\ srcAfter = srcRecord
    /\ evaluated = Undefined
    /\ mappedOut = Undefined
    /\ mapPc = "init"

\* evalMapping(value, rec)
EvalValue ==
    /\ mapPc = "init"
    /\ evaluated' = evalMapping(tplValue, srcRecord)
    /\ mapPc' = "evaluated"
    /\ UNCHANGED <<tplValue, tplRecord, tplNoeval, srcRecord, srcAfter, mappedOut,
                   notMappingVars>>

\* the source record goes through the stage RecordStream.recordMapStream made
MapRecord ==
    /\ mapPc = "init"
    /\ LET fnResult == recordMapStream(tplRecord, tplNoeval, srcRecord)
       IN /\ mappedOut' = mapPush(fnResult.obj, fnResult.input)[1]
          /\ srcAfter' = fnResult.input
    /\ mapPc' = "mapped"
    /\ UNCHANGED <<tplValue, tplRecord, tplNoeval, srcRecord, evaluated, notMappingVars>>

NextMapping ==
    \/ EvalValue
    \/ MapRecord

(***************************************************************************)
(* createPipelineStream, as Serializable.stream uses it                    *)
(***************************************************************************)
\* number of records written into the Serializable
MaxProduced == 2

\* the Serializable, the composite and the two stages it is made of
Streams == {"source", "pipeline", "s1", "s2"}

\* what the stream the composite returns can be piped into
Destinations == {"dest1", "dest2"}

\* src.pipe(dest): dest joins the destinations of src
pipeTo(table, src, dest) == [table EXCEPT ![src] = Append(@, dest)]

\* src.unpipe(dest)
unpipe(table, src, dest) ==
    LET Other(d) == d # dest
    IN [table EXCEPT ![src] = SelectSeq(@, Other)]

\* the 'pipe' listener without its unpipe
onPipe_staysPiped(table, source) == pipeTo(pipeTo(table, source, "s1"), "s1", "s2")

\* pipeline.on('pipe', source => { source.unpipe(pipeline); source.pipe(s1).pipe(s2) })
onPipe(table, source) ==
    pipeTo(pipeTo(unpipe(table, source, "pipeline"), source, "s1"), "s1", "s2")

\* pipeline.pipe = (dest, options) => s2.pipe(dest, options)
pipelinePipe(table, dest) == pipeTo(table, "s2", dest)

\* the external CSV encoder: one CSV line made of the fields of a record
serializeCSVStream(rec) == [t |-> "csv", n |-> 0, s |-> "", sub |-> rec.sub]

\* what a stream makes of a record written into it
stageOutput(stream, rec) ==
    CASE stream = "s1" -> mapPush(convertRecordForSerialization(rec, Obj(<<>>)), rec)[1]
      [] stream = "s2" -> serializeCSVStream(rec)
      [] OTHER -> rec

PipelineRecords ==
    {Obj(<<Prop("a", Num(1))>>), Obj(<<Prop("a", Null), Prop("attributes", Attributes)>>)}

\* a record on its way: src is its place among the records written, via the
\* streams it has been written into
Travelling(rec, src, via) == [rec |-> rec, src |-> src, via |-> via]

\* the variables of SpecPipeline, at rest in the other specifications
InitPipeline ==
    /\ plCreated = FALSE
    /\ plPipes = [x \in Streams |-> <<>>]
    /\ plAttached = <<>>
    /\ plQueues = [x \in Streams |-> <<>>]
    /\ plProduced = <<>>
    /\ plReceived = [d \in Destinations |-> <<>>]

\* Serializable.stream(): this.pipe(converter.serialize(options)); the pipe
\* call registers the composite as destination and emits 'pipe' on it
StreamComposite ==
    /\ ~plCreated
    /\ plCreated' = TRUE
    /\ plPipes' = onPipe(pipeTo(plPipes, "source", "pipeline"), "source")
    /\ UNCHANGED <<plAttached, plQueues, plProduced, plReceived>>

\* pipe(dest) called on the stream Serializable.stream() returned
PipeComposite(dest) ==
    /\ plCreated
    /\ \A k \in 1..Len(plAttached) : plAttached[k] # dest
    /\ plPipes' = pipelinePipe(plPipes, dest)
    /\ plAttached' = Append(plAttached, dest)
    /\ UNCHANGED <<plCreated, plQueues, plProduced, plReceived>>

\* a record is written into the Serializable
Produce(rec) ==
    /\ Len(plProduced) < MaxProduced
    /\ plProduced' = Append(plProduced, rec)
    /\ plQueues' = [plQueues EXCEPT
                       !["source"] = push(@, <<Travelling(rec, Len(plProduced) + 1, <<>>)>>)]
    /\ UNCHANGED <<plCreated, plPipes, plAttached, plReceived>>

\* a stream that is piped somewhere writes its oldest record into every
\* destination it is piped into
FlowStream(x) ==
    /\ plQueues[x] # <<>>
    /\ plPipes[x] # <<>>
    /\ LET item == Head(plQueues[x])
           dests == {plPipes[x][k] : k \in 1..Len(plPipes[x])}
           Arrived(y) == Travelling(stageOutput(y, item.rec), item.src, Append(item.via, y))
       IN /\ plQueues' = [y \in Streams |->
                             IF y \in dests
                             THEN push(IF y = x THEN Tail(plQueues[y]) ELSE plQueues[y],
                                       <<Arrived(y)>>)
                             ELSE IF y = x THEN Tail(plQueues[y]) ELSE plQueues[y]]
          /\ plReceived' = [d \in Destinations |->
                               IF d \in dests
                               THEN push(plReceived[d], <<Arrived(d)>>)
                               ELSE plReceived[d]]
    /\ UNCHANGED <<plCreated, plPipes, plAttached, plProduced>>

NextPipeline ==
    \/ StreamComposite /\ UNCHANGED notPipelineVars
    \/ \E dest \in Destinations : PipeComposite(dest) /\ UNCHANGED notPipelineVars
    \/ \E rec \in PipelineRecords : Produce(rec) /\ UNCHANGED notPipelineVars
    \/ \E x \in Streams : FlowStream(x) /\ UNCHANGED notPipelineVars

(***************************************************************************)
(* The cache of the cache test: one Cache, and getTime wrapped three times *)
(* under the same key, with the strategies NOCACHE, HIT and IMMEDIATE      *)
(***************************************************************************)
\* number of calls the test makes: wrapped functions called, cache cleared
MaxCacheCalls == 6

CacheKeys == {"getTime"}

Strategies == {"NOCACHE", "HIT", "IMMEDIATE"}

\* nothing is stored under a key
NoEntry == Undefined

\* getTime resolves to the time of its completion, later at every invocation
getTime(invocation) == Num(invocation)

\* a wrapped function that never answers from the cache
answersFromCache_never(strategy, entry) == FALSE

\* a wrapped function answers from the cache, without invoking the function
\* it wraps, when its strategy is HIT or IMMEDIATE and a result is stored
answersFromCache(strategy, entry) == strategy \in {"HIT", "IMMEDIATE"} /\ entry # NoEntry

\* cache.clear()
clear(entries) == [key \in DOMAIN entries |-> NoEntry]

\* the variables of SpecCache, at rest in the other specifications:
\* const cache = new Cache()
InitCache ==
    /\ cacheEntries = [key \in CacheKeys |-> NoEntry]
    /\ clock = 0
    /\ cacheCalls = <<>>

\* one of the wrapped functions is called and its result awaited; IMMEDIATE
\* is called only with a result stored, as the test calls it
CallCached(strategy, key) ==
    /\ Len(cacheCalls) < MaxCacheCalls
    /\ strategy = "IMMEDIATE" => cacheEntries[key] # NoEntry
    /\ IF answersFromCache(strategy, cacheEntries[key])
       THEN /\ cacheCalls' = Append(cacheCalls,
                                    [strategy |-> strategy, value |-> cacheEntries[key]])
            /\ UNCHANGED <<cacheEntries, clock>>
       ELSE /\ clock' = clock + 1
            /\ cacheEntries' = [cacheEntries EXCEPT ![key] = getTime(clock + 1)]
            /\ cacheCalls' = Append(cacheCalls,
                                    [strategy |-> strategy, value |-> getTime(clock + 1)])

\* cache.clear()
ClearCache ==
    /\ Len(cacheCalls) < MaxCacheCalls
    /\ cacheEntries' = clear(cacheEntries)
    /\ cacheCalls' = Append(cacheCalls, [strategy |-> "clear", value |-> Undefined])
    /\ UNCHANGED clock

NextCache ==
    \/ \E strategy \in Strategies, key \in CacheKeys :
           CallCached(strategy, key) /\ UNCHANGED notCacheVars
    \/ ClearCache /\ UNCHANGED notCacheVars

(***************************************************************************)
(* ConnectionManager with a user pool                                      *)
(***************************************************************************)
\* number of connections the tests establish and close
MaxConnections == 3

Connections == 1..MaxConnections

\* the usernames of the pool
PoolUsers == {"user1", "user2"}

\* no username
NoUser == ""

\* userPool.checkout(): a username the pool has to hand out is taken from it
checkout(pool, username) == pool \ {username}

\* userPool.checkin(username): the username is handed out again
checkin(pool, username) == pool \cup {username}

\* the variables of SpecConn, at rest in the other specifications:
\* new ConnectionManager(config) with poolUsername and poolPassword set,
\* and connections made by createConnection()
InitConn ==
    /\ available = PoolUsers
    /\ conns = [c \in Connections |->
                   [pc |-> "created", __username |-> NoUser, took |-> NoUser,
                    returned |-> FALSE, closing |-> "not called"]]

\* establishConnection(conn) up to its login: the username checked out is
\* kept in conn.__username
EstablishCheckout(c) ==
    /\ conns[c].pc = "created"
    /\ \E username \in available :
           /\ available' = checkout(available, username)
           /\ conns' = [conns EXCEPT ![c].pc = "login",
                                     ![c].__username = username,
                                     ![c].took = username]

\* await conn.login(username, config.password): it resolves, or it rejects
\* and establishConnection rejects with it
EstablishLogin(c, ok) ==
    /\ conns[c].pc = "login"
    /\ conns' = [conns EXCEPT ![c].pc = IF ok THEN "established" ELSE "login failed"]
    /\ UNCHANGED available

\* closeConnection(conn) up to the answer of conn.apex.delete(...): when the
\* request fails, the catch block is all that is left to run
CloseDelete(c, ok) ==
    /\ conns[c].pc \in {"established", "login failed"}
    /\ conns' = [conns EXCEPT ![c].pc = IF ok THEN "checkin" ELSE "closed",
                              ![c].closing = IF ok THEN "pending" ELSE "resolved"]
    /\ UNCHANGED available

\* await userPool.checkin(conn.__username); delete conn.__username
CloseCheckin(c) ==
    /\ conns[c].pc = "checkin"
    /\ available' = checkin(available, conns[c].__username)
    /\ conns' = [conns EXCEPT ![c].pc = "closed",
                              ![c].returned = (conns[c].__username = conns[c].took),
                              ![c].__username = NoUser,
                              ![c].closing = "resolved"]

NextConn ==
    \/ \E c \in Connections : EstablishCheckout(c) /\ UNCHANGED notConnVars
    \/ \E c \in Connections, ok \in BOOLEAN : EstablishLogin(c, ok) /\ UNCHANGED notConnVars
    \/ \E c \in Connections, ok \in BOOLEAN : CloseDelete(c, ok) /\ UNCHANGED notConnVars
    \/ \E c \in Connections : CloseCheckin(c) /\ UNCHANGED notConnVars

(***************************************************************************)
(* The specifications                                                      *)
(***************************************************************************)
InitChainSpec ==
    /\ InitChain
    /\ InitStreams
    /\ InitConv
    /\ InitMapping
    /\ InitPipeline
    /\ InitCache
    /\ InitConn

SpecChain == InitChainSpec /\ [][NextChain]_vars

SpecThrow == InitChainSpec /\ [][NextThrow]_vars

InitMappingSpec ==
    /\ InitStreams
    /\ InitChain
    /\ InitConv
    /\ InitPipeline
    /\ InitCache
    /\ InitConn
    /\ tplValue \in TemplateValues
    /\ tplRecord \in TemplatesWith(tplValue)
    /\ tplNoeval \in BOOLEAN
    /\ srcRecord \in SourceRecords
    /\ srcAfter = srcRecord
    /\ evaluated = Undefined
    /\ mappedOut = Undefined
    /\ mapPc = "init"

SpecMapping == InitMappingSpec /\ [][NextMapping]_vars

InitPipelineSpec ==
    /\ InitStreams
    /\ InitChain
    /\ InitConv
    /\ InitMapping
    /\ InitPipeline
    /\ InitCache
    /\ InitConn

SpecPipeline == InitPipelineSpec /\ [][NextPipeline]_vars

InitCacheSpec ==
    /\ InitStreams
    /\ InitChain
    /\ InitConv
    /\ InitMapping
    /\ InitPipeline
    /\ InitCache
    /\ InitConn

SpecCache == InitCacheSpec /\ [][NextCache]_vars

InitConnSpec ==
    /\ InitStreams
    /\ InitChain
    /\ InitConv
    /\ InitMapping
    /\ InitPipeline
    /\ InitCache
    /\ InitConn

SpecConn == InitConnSpec /\ [][NextConn]_vars

Init ==
    /\ InitStreams
    /\ InitChain
    /\ InitConv
    /\ InitMapping
    /\ InitPipeline
    /\ InitCache
    /\ InitConn

Next ==
    \/ \E arg \in FormatArgs : ParsableStream(arg) /\ UNCHANGED notStreamVars
    \/ \E ev \in Events : ParsableOn(ev) /\ UNCHANGED notStreamVars
    \/ \E i \in 1..Len(dataStreams) : WriteSink(i) /\ UNCHANGED notStreamVars
    \/ \E i \in 1..Len(dataStreams) : FlowSink(i) /\ UNCHANGED notStreamVars
    \/ \E i \in 1..Len(dataStreams) : FailSink(i) /\ UNCHANGED notStreamVars
    \/ \E i \in 1..Len(dataStreams) : EndSink(i) /\ UNCHANGED notStreamVars
    \/ \E i \in 1..Len(dataStreams) : FinishSink(i) /\ UNCHANGED notStreamVars
    \/ \E how \in {"ended", "destroyed"} : TerminateParsable(how) /\ UNCHANGED notStreamVars
    \/ \E arg \in FormatArgs : SerializableStream(arg) /\ UNCHANGED notStreamVars

Spec == Init /\ [][Next]_vars

(***************************************************************************)
(* Properties of the Parsable and Serializable streams                     *)
(***************************************************************************)
\* no listener for 'readable' or 'record' has been registered
Idle == listeners["readable"] = 0 /\ listeners["record"] = 0

Sinks == 1..Len(dataStreams)

PairOf(i) == [dataStream |-> i, parserStream |-> i]

\* C1: while the Parsable is Idle, whatever stream() calls, writes and other
\* subscriptions were made, no sink is piped into its parse stage and no
\* record has come out of the Parsable stream.
C1_IdleNothingFlows ==
    Idle => /\ \A i \in Sinks : dataStreams[i].pipes = <<>>
            /\ emitted = <<>>
            /\ connectLog = <<>>

\* Idle, two sinks, each with a chunk written into it, a 'data' listener on
C1_Witness ==
    /\ Idle
    /\ Len(dataStreams) >= 2
    /\ \A i \in Sinks : dataStreams[i].buffer # <<>>
    /\ listeners["data"] > 0

\* C2: the step that registers the first 'readable' / 'record' listener pipes
\* every sink created before it into its own parse stage, and makes these
\* pipes in the order the sinks were created.
C2_ActivationConnectsAll ==
    [][(Idle /\ ~Idle') =>
          /\ \A i \in Sinks : dataStreams'[i].pipes = <<i>>
          /\ connectLog' = [i \in Sinks |-> PairOf(i)]]_vars

\* the first subscription found two sinks queued and connected them
C2_Witness ==
    /\ ~Idle
    /\ Calls - Len(dataStreams) - TotalWritten = 1
    /\ Len(_incomings) >= 2
    /\ connectLog = _incomings
    /\ \E i \in Sinks : dataStreams[i].written > 0

\* C3: once Active, a stream() call that returns a sink has piped that sink
\* into its parse stage and has left the queue _incomings as it was.
C3_ActiveConnectsAtOnce ==
    [][(~Idle /\ Len(dataStreams') = Len(dataStreams) + 1) =>
          /\ dataStreams'[Len(dataStreams')].pipes = <<Len(dataStreams')>>
          /\ _incomings' = _incomings]_vars

\* Active, with a sink that is piped and was never queued
C3_Witness ==
    /\ ~Idle
    /\ \E i \in Sinks :
           /\ dataStreams[i].pipes = <<i>>
           /\ \A j \in 1..Len(_incomings) : _incomings[j].dataStream # i

\* C4: the activation flag is set from the first 'readable' / 'record'
\* subscription on and not before, and no sink is ever piped into its parse
\* stage more than once, whatever subscriptions and stream() calls follow.
C4_ActivatedOnce ==
    /\ _execParse <=> ~Idle
    /\ \A i \in Sinks : Len(dataStreams[i].pipes) <= 1
    /\ \A i, j \in 1..Len(connectLog) : connectLog[i] = connectLog[j] => i = j

\* two record-class subscriptions, a sink queued before the first and a sink
\* created after it, each piped
C4_Witness ==
    /\ listeners["readable"] + listeners["record"] >= 2
    /\ Len(_incomings) >= 1
    /\ Len(dataStreams) > Len(_incomings)
    /\ \A i \in Sinks : dataStreams[i].pipes = <<i>>

\* the names under which a converter is registered
RegisteredFormats == KeySet(DataStreamConverters)

MessageParts(err) == {err.message[i] : i \in 1..Len(err.message)}

\* C5: a stream() call of either class with a format name that is not
\* registered throws an error whose message names the format, returns no
\* stream and leaves the streams as they were.
C5_UnsupportedFormatFails ==
    [][(/\ outcome'.op \in {"Parsable.stream", "Serializable.stream"}
        /\ outcome'.type \notin RegisteredFormats) =>
          /\ outcome'.thrown # NoError
          /\ outcome'.type \in MessageParts(outcome'.thrown)
          /\ outcome'.returned = 0
          /\ UNCHANGED <<parsableVars, serPipes>>]_vars

(***************************************************************************)
(* Inputs of SpecSerialize                                                 *)
(***************************************************************************)
\* nesting depth of the records written into the serialize stage
MaxDepth == 2

NullToken == Str("#N/A")

ScalarValues == {Undefined, Null, Num(1)}

RECURSIVE RecordsOfDepth(_)
RecordsOfDepth(d) ==
    IF d = 0
    THEN {Obj(a \o at) : a \in FieldChoices("a", ScalarValues),
                         at \in FieldChoices("attributes", {Attributes})}
    ELSE {Obj(a \o c \o at) : a \in FieldChoices("a", ScalarValues),
                              c \in FieldChoices("c", RecordsOfDepth(d - 1)),
                              at \in FieldChoices("attributes", {Attributes})}

SerializeOptions ==
    {Obj(<<>>)} \cup
    {Obj(<<Prop("nullValue", v)>>) : v \in {NullToken, Str(""), Num(0)}}

\* {a: 1, b: null, c: {d: 2}, attributes: {...}}
ExampleRecord ==
    Obj(<<Prop("a", Num(1)), Prop("b", Null),
          Prop("c", Obj(<<Prop("d", Num(2))>>)), Prop("attributes", Attributes)>>)

InitSerialize ==
    /\ InitStreams
    /\ InitChain
    /\ record \in RecordsOfDepth(MaxDepth) \cup {ExampleRecord}
    /\ options \in SerializeOptions
    /\ converted = Undefined
    /\ recordAfter = record
    /\ convPc = "init"
    /\ InitMapping
    /\ InitPipeline
    /\ InitCache
    /\ InitConn

\* CSVStreamConverter.serialize: the map stage in front of the CSV encoder
SerializeRecord ==
    /\ convPc = "init"
    /\ converted' = mapPush(convertRecordForSerialization(record, options), record)[1]
    /\ recordAfter' = convertCall(record, options).input
    /\ convPc' = "done"
    /\ UNCHANGED <<record, options, notConvVars>>

NextSerialize == SerializeRecord

SpecSerialize == InitSerialize /\ [][NextSerialize]_vars

\* a record through the serialize stage, or a record through a
\* recordMapStream stage
InitFrame ==
    \/ InitSerialize
    \/ InitMappingSpec

NextFrame ==
    \/ SerializeRecord
    \/ MapRecord

SpecFrame == InitFrame /\ [][NextFrame]_vars

(***************************************************************************)
(* Properties of the map and filter stages                                 *)
(***************************************************************************)
StageIds == 1..Len(stages)

FnResult(j, item) == applyFn(stages[j].fn, item.rec)

\* C6: a map stage has pushed one record for every record it was called
\* with: the record itself where fn returned null or undefined, the record
\* fn returned where it returned one.
C6_MapOnePerRecord ==
    \A j \in StageIds :
        stages[j].kind = "map" =>
            /\ Len(pushed[j]) = Len(seen[j])
            /\ \A k \in 1..Len(seen[j]) :
                   LET r == FnResult(j, seen[j][k])
                   IN /\ k <= Len(pushed[j])
                      /\ r \in {Null, Undefined} => pushed[j][k].rec = seen[j][k].rec
                      /\ r.t = "object" => pushed[j][k].rec = r

\* two map stages: one whose fn never returns anything, one whose fn
\* returned null for one record and a new record for another
C6_Witness ==
    /\ \E j \in StageIds :
           /\ stages[j].kind = "map"
           /\ \E k \in 1..Len(seen[j]) : FnResult(j, seen[j][k]) = Undefined
    /\ \E j \in StageIds :
           /\ stages[j].kind = "map"
           /\ \E k \in 1..Len(seen[j]) : FnResult(j, seen[j][k]) = Null
           /\ \E k \in 1..Len(seen[j]) :
                  /\ FnResult(j, seen[j][k]).t = "object"
                  /\ FnResult(j, seen[j][k]) # seen[j][k].rec

\* C7: what a filter stage has pushed is exactly the records, unchanged and
\* in order, for which fn returned a truthy value; so it has pushed as many
\* records as there were truthy results, and a record for which fn returned
\* a falsy value is not among the records waiting downstream.
C7_FilterEmitsIffTruthy ==
    \A j \in StageIds :
        stages[j].kind = "filter" =>
            LET Passes(item) == Truthy(FnResult(j, item))
            IN /\ pushed[j] = SelectSeq(seen[j], Passes)
               /\ \A k \in 1..Len(buffers[j + 1]) : Passes(buffers[j + 1][k])

\* a filter stage whose fn returned a number: 0 for one record it was called
\* with, another number for another
C7_Witness ==
    \E j \in StageIds :
        /\ stages[j] = [kind |-> "filter", fn |-> "idMinusOne"]
        /\ \E k \in 1..Len(seen[j]) : FnResult(j, seen[j][k]) = Num(0)
        /\ \E k \in 1..Len(seen[j]) : FnResult(j, seen[j][k]) = Num(1)
        /\ Len(pushed[j]) >= 1

\* C8: the records a stage has pushed, at the end of the chain and at every
\* stage before it, come from input records of strictly increasing position:
\* the order of the input is kept and no record appears twice.
C8_OrderPreserved ==
    \A j \in StageIds :
        \A k \in 1..Len(pushed[j]) :
            /\ pushed[j][k].src \in 1..Len(input)
            /\ k > 1 => pushed[j][k - 1].src < pushed[j][k].src

\* a map stage and a filter stage in a row, three records written, one of
\* them dropped, two of them through both stages
C8_Witness ==
    /\ Len(stages) = 2
    /\ {stages[1].kind, stages[2].kind} = {"map", "filter"}
    /\ Len(input) = 3
    /\ Len(seen[2]) = 3
    /\ Len(pushed[2]) = 2

(***************************************************************************)
(* Properties of the serialize stage                                       *)
(***************************************************************************)
\* the fields of a record that are not records themselves, under their dotted
\* paths, leaving out 'attributes' at every level
RECURSIVE LeafPaths(_, _)
LeafPaths(o, prefix) ==
    UNION {LET e == o.sub[i]
           IN IF e.k = "attributes"
              THEN {}
              ELSE IF e.v.t = "object"
              THEN LeafPaths(e.v, prefix \o e.k \o ".")
              ELSE {[path |-> prefix \o e.k, v |-> e.v]}
           : i \in 1..Len(o.sub)}

\* C9: the record pushed by the serialize map stage is flat: no value of it
\* is a record, 'attributes' is absent, its keys are exactly the dotted paths
\* of the input's non-record fields, and the example of the spec yields
\* exactly {a: 1, b: "#N/A", "c.d": 2}.
C9_FlatRecord ==
    convPc = "done" =>
        /\ \A i \in 1..Len(converted.sub) : converted.sub[i].v.t # "object"
        /\ "attributes" \notin KeySet(converted)
        /\ KeySet(converted) = {p.path : p \in LeafPaths(record, "")}
        /\ (record = ExampleRecord /\ Get(options, "nullValue") = NullToken
              => converted = Obj(<<Prop("a", Num(1)), Prop("b", NullToken),
                                   Prop("c.d", Num(2))>>))

\* C10: with the nullValue option set to any value, every field that is null,
\* at top level or inside a flattened nested record, carries that value after
\* the stage; every other non-record field carries the value it had; without
\* the option a null field stays null.
C10_NullReplaced ==
    convPc = "done" =>
        \A p \in LeafPaths(record, "") :
            Get(converted, p.path) =
                IF p.v = Null /\ HasKey(options, "nullValue")
                THEN Get(options, "nullValue")
                ELSE p.v

(***************************************************************************)
(* Properties of evalMapping and of the recordMapStream stage              *)
(***************************************************************************)
\* the string form of a field of the record itself; nothing for a field that
\* is null, undefined or missing
FieldText(rec, prop) ==
    IF Get(rec, prop) \in {Null, Undefined} THEN "" ELSE ToString(Get(rec, prop))

RECURSIVE FilledIn(_, _)
\* a template string with every placeholder replaced by the field's text
FilledIn(segs, rec) ==
    IF segs = <<>>
    THEN ""
    ELSE (IF Head(segs).ph THEN FieldText(rec, Head(segs).text) ELSE Head(segs).text)
         \o FilledIn(Tail(segs), rec)

\* C11: evalMapping returns a value that is no string as it is; for a string
\* that is one placeholder and nothing else, the value of the source
\* record's field of that name, whatever its type (undefined for a field
\* the record does not have); for any other string, the string with every
\* placeholder replaced by the string form of the field, and by nothing
\* where the field is null, undefined or missing.
C11_EvalMapping ==
    mapPc = "evaluated" =>
        IF tplValue.t # "string"
        THEN evaluated = tplValue
        ELSE IF execWhole(tplValue.s)
        THEN evaluated = Get(srcRecord, Scan(tplValue.s)[1].text)
        ELSE evaluated = Str(FilledIn(Scan(tplValue.s), srcRecord))

\* C12: the record the recordMapStream stage pushes has the Id of the source
\* record, with noeval and without it, and has every field of the template.
C12_MappedKeepsId ==
    mapPc = "mapped" =>
        /\ Get(mappedOut, "Id") = Get(srcRecord, "Id")
        /\ KeySet(tplRecord) \subseteq KeySet(mappedOut)

(***************************************************************************)
(* Properties of the Parsable stream: errors, end and destroy              *)
(***************************************************************************)
Errored == {i \in Sinks : parserStreams[i].state = "errored"}

Queued == {_incomings[k].dataStream : k \in 1..Len(_incomings)}

\* C13: the errors emitted on the Parsable stream are exactly the errors the
\* parse stages have raised, one for each, for the parse stage of a sink
\* that was queued as for the parse stage of a sink connected at once.
C13_ParseErrorsReemitted ==
    /\ {errors[k].sink : k \in 1..Len(errors)} = Errored
    /\ Len(errors) = Cardinality(Errored)

\* the parse stage of a sink that had been queued and the parse stage of a
\* sink connected at once have both raised an error
C13_Witness ==
    /\ Errored \cap Queued # {}
    /\ Errored \ Queued # {}
    /\ Len(errors) = 2

\* C16: once the Parsable stream has been ended or destroyed, no sink is left
\* unconnected with chunks written into it and not handed on.
C16_TerminationReleasesSinks ==
    parsable.state # "open" =>
        \A i \in Sinks : dataStreams[i].pipes = <<>> => dataStreams[i].buffer = <<>>

\* C18: the end of a sink's input does not end the Parsable stream while
\* another sink is still open or has chunks to hand on, and no record parsed
\* from a sink is turned away by the Parsable stream unless end() or
\* destroy() was called on the Parsable stream itself.
C18_SinkEndKeepsOthers ==
    /\ parsable.by # 0 =>
           \A j \in Sinks : dataStreams[j].ended /\ dataStreams[j].buffer = <<>>
    /\ rejected # <<>> => parsable.state # "open" /\ parsable.by = 0

(***************************************************************************)
(* Properties of stages whose fn throws                                    *)
(***************************************************************************)
\* C14: a stage whose fn has thrown has stopped with an 'error' of its own
\* stream.
C14_ThrowIsStreamError ==
    \A j \in StageIds : stageState[j] # "running" => stageState[j] = "errored"

(***************************************************************************)
(* Properties of the composite stream                                      *)
(***************************************************************************)
\* what the two stages in a row make of a record
ThroughBoth(rec) == stageOutput("s2", stageOutput("s1", rec))

\* no record is on its way
Quiet == \A x \in Streams : plQueues[x] = <<>>

\* C15: once the Serializable is piped into the composite it is piped into
\* s1 alone and s1 into s2, and nothing is ever piped or written into the
\* composite itself; the destinations given to the composite's pipe are the
\* destinations of s2; what a destination has received are records written
\* into the Serializable, in their order, each turned by s1 and then by s2;
\* and once nothing is on its way any more, the destination attached first
\* has received every record written.
C15_CompositeAsOneTransform ==
    /\ plCreated => plPipes["source"] = <<"s1">> /\ plPipes["s1"] = <<"s2">>
    /\ plPipes["pipeline"] = <<>> /\ plQueues["pipeline"] = <<>>
    /\ plPipes["s2"] = plAttached
    /\ \A d \in Destinations :
           \A k \in 1..Len(plReceived[d]) :
               LET item == plReceived[d][k]
               IN /\ item.src \in 1..Len(plProduced)
                  /\ item.rec = ThroughBoth(plProduced[item.src])
                  /\ item.via = <<"s1", "s2", d>>
                  /\ k > 1 => plReceived[d][k - 1].src < item.src
    /\ (Quiet /\ plCreated /\ plAttached # <<>>) =>
           Len(plReceived[plAttached[1]]) = Len(plProduced)

\* two different records, one of them changed by s1, have both arrived at a
\* destination
C15_Witness ==
    /\ Len(plProduced) = 2
    /\ plProduced[1] # plProduced[2]
    /\ ThroughBoth(plProduced[2]) # serializeCSVStream(plProduced[2])
    /\ \E d \in Destinations : Len(plReceived[d]) = 2

(***************************************************************************)
(* Properties of the cached functions                                      *)
(***************************************************************************)
\* the values the calls made so far have returned
Returns == {cacheCalls[k].value.n : k \in 1..Len(cacheCalls)}

\* C17: a call of the NOCACHE function invokes getTime and stores what it
\* resolved to; a call of the HIT or IMMEDIATE function made while a result
\* is stored returns that result, the one stored last, and invokes nothing;
\* a call of the HIT function made when nothing is stored, as after clear(),
\* invokes getTime and returns a result newer than every result before.
C17_CacheStrategies ==
    [][Len(cacheCalls') = Len(cacheCalls) + 1 =>
          LET call == cacheCalls'[Len(cacheCalls')]
              stored == cacheEntries["getTime"]
          IN /\ call.strategy = "NOCACHE" =>
                    /\ clock' = clock + 1
                    /\ call.value = getTime(clock')
                    /\ cacheEntries'["getTime"] = call.value
             /\ (call.strategy \in {"HIT", "IMMEDIATE"} /\ stored # NoEntry) =>
                    /\ clock' = clock
                    /\ call.value = stored
                    /\ stored = getTime(clock)
             /\ (call.strategy = "HIT" /\ stored = NoEntry) =>
                    /\ clock' = clock + 1
                    /\ \A n \in Returns : call.value.n > n]_vars

\* the calls of the test: t1 < t2, t3 = t2, t4 = t3, clear, t4 < t5
C17_Witness ==
    /\ [k \in 1..Len(cacheCalls) |-> cacheCalls[k].strategy]
           = <<"NOCACHE", "NOCACHE", "HIT", "IMMEDIATE", "clear", "HIT">>
    /\ cacheCalls[1].value.n < cacheCalls[2].value.n
    /\ cacheCalls[3].value = cacheCalls[2].value
    /\ cacheCalls[4].value = cacheCalls[3].value
    /\ cacheCalls[4].value.n < cacheCalls[6].value.n

(***************************************************************************)
(* Frame of the serialize stage and of the recordMapStream stage           *)
(***************************************************************************)
\* C19: after the serialize stage or a recordMapStream stage has dealt with
\* a record, the record object written into it has every field it had, with
\* the value it had, and no other field: what the stage changed is in the
\* record it pushed only.
C19_InputNotMutated ==
    /\ convPc = "done" => recordAfter = record
    /\ mapPc = "mapped" => srcAfter = srcRecord

\* a recordMapStream stage has pushed a record that differs from the source
\* record in a field the source record has too
C19_Witness ==
    /\ mapPc = "mapped"
    /\ HasKey(srcRecord, "Id")
    /\ Get(mappedOut, "Id") # Get(srcRecord, "Id")
    /\ ~HasKey(srcRecord, "Label")
    /\ srcAfter = srcRecord

(***************************************************************************)
(* Properties of the ConnectionManager                                     *)
(***************************************************************************)
\* C20: closeConnection never rejects, and once it has returned for a
\* connection, the username establishConnection checked out for that
\* connection has been checked in again.
C20_CheckedOutIsCheckedIn ==
    \A c \in Connections :
        /\ conns[c].closing # "rejected"
        /\ (conns[c].pc = "closed" /\ conns[c].took # NoUser) => conns[c].returned

=============================================================================
